---- MODULE Spec2Model ----
(***************************************************************************)
(* A model of discoart/__init__.py: the prompt parser, the two cutout      *)
(* generators, the guidance function cond_fn and the sampling orchestrator *)
(* do_run driven by create.                                                *)
(*                                                                         *)
(* Tensors of floats are modelled as short sequences of values that are    *)
(* either NaN, +inf, -inf or an exact rational; strings are sequences of   *)
(* one-character strings.                                                  *)
(***************************************************************************)
EXTENDS Integers, Sequences, FiniteSets, TLC

VARIABLES
    args,         \* the argument namespace of the run (do_run's args)
    pc,           \* where create / do_run stands
    exc,          \* the exception that left create, or "none"
    retval,       \* what create returned to its caller
    rng_seed,     \* the seed the random sources were last seeded with
    org_seed,     \* org_seed of do_run
    nb,           \* _nb, the index of the batch element
    cur_t,        \* the closure variable cur_t of do_run
    j,            \* the enumerate index of the step the sampler yields next
    sampler,      \* the sampler generator: the timestep index it handles next
    model_stats,  \* the per-model embeddings and weights built before the batch loop
    last,         \* the last call of cond_fn: its raw gradient and its result
    d_chunks,     \* d.chunks of the current batch element
    sprites,      \* what plot_image_sprites last wrote, per batch index
    runs,         \* the sampler invocations made, each with seed and shape
    interrupted,  \* a KeyboardInterrupt was delivered
    skip_augs,    \* the module-level flag skip_augs
    gcall,        \* one call of the numeric tail of cond_fn
    pcall,        \* one call of parse_prompt
    ccall         \* one call of a cutout generator's forward

vars == <<args, pc, exc, retval, rng_seed, org_seed, nb, cur_t, j, sampler, model_stats,
          last, d_chunks, sprites, runs, interrupted, skip_augs, gcall, pcall,
          ccall>>

runVars == <<args, pc, exc, retval, rng_seed, org_seed, nb, cur_t, j, sampler,
             model_stats, last, d_chunks, sprites, runs, interrupted, skip_augs>>

(***************************************************************************)
(* Floating-point values: NaN, the two infinities, and exact rationals.    *)
(***************************************************************************)
\* The number of fraction digits float() keeps in the model.
FracDigits == 4

Abs(x) == IF x < 0 THEN -x ELSE x

RECURSIVE Gcd(_, _)
Gcd(a, b) == IF b = 0 THEN a ELSE Gcd(b, a % b)

NaN == [k |-> "nan", n |-> 0, d |-> 1]

PInf == [k |-> "inf", n |-> 1, d |-> 1]

NInf == [k |-> "inf", n |-> -1, d |-> 1]

Rat(n, d) ==
    LET s == IF d < 0 THEN -1 ELSE 1
        g == Gcd(Abs(n), Abs(d))
    IN  [k |-> "fin", n |-> (s * n) \div g, d |-> (s * d) \div g]

Num(i) == Rat(i, 1)

IsNaN(x) == x.k = "nan"

IsFinite(x) == x.k = "fin"

Sign(x) == IF x.n > 0 THEN 1 ELSE IF x.n < 0 THEN -1 ELSE 0

Inf(s) == IF s > 0 THEN PInf ELSE NInf

FNeg(x) == IF IsNaN(x) THEN NaN ELSE [x EXCEPT !.n = -x.n]

FMul(x, y) ==
    IF IsNaN(x) \/ IsNaN(y) THEN NaN
    ELSE IF IsFinite(x) /\ IsFinite(y) THEN Rat(x.n * y.n, x.d * y.d)
    ELSE IF Sign(x) * Sign(y) = 0 THEN NaN
    ELSE Inf(Sign(x) * Sign(y))

FAdd(x, y) ==
    IF IsNaN(x) \/ IsNaN(y) THEN NaN
    ELSE IF IsFinite(x) /\ IsFinite(y) THEN Rat(x.n * y.d + y.n * x.d, x.d * y.d)
    ELSE IF IsFinite(x) THEN y
    ELSE IF IsFinite(y) THEN x
    ELSE IF Sign(x) = Sign(y) THEN x
    ELSE NaN

FDiv(x, y) ==
    IF IsNaN(x) \/ IsNaN(y) THEN NaN
    ELSE IF IsFinite(x) /\ IsFinite(y) THEN
        IF y.n = 0 THEN (IF x.n = 0 THEN NaN ELSE Inf(Sign(x)))
        ELSE Rat(x.n * y.d, x.d * y.n)
    ELSE IF IsFinite(x) THEN Num(0)
    ELSE IF IsFinite(y) THEN Inf(Sign(x) * (IF y.n < 0 THEN -1 ELSE 1))
    ELSE NaN

FLe(x, y) ==
    /\ ~IsNaN(x)
    /\ ~IsNaN(y)
    /\ IF IsFinite(x) /\ IsFinite(y) THEN x.n * y.d <= y.n * x.d
       ELSE IF IsFinite(x) THEN Sign(y) > 0
       ELSE IF IsFinite(y) THEN Sign(x) < 0
       ELSE Sign(x) <= Sign(y)

\* The square root of a perfect square (the inputs are drawn so that every
\* root taken is rational).
ISqrt(n) == CHOOSE r \in 0..n : r * r = n

FSqrt(x) ==
    IF IsNaN(x) THEN NaN
    ELSE IF ~IsFinite(x) THEN (IF Sign(x) > 0 THEN PInf ELSE NaN)
    ELSE IF x.n < 0 THEN NaN
    ELSE Rat(ISqrt(x.n), ISqrt(x.d))

\* Tensor.clamp(max=c): NaN stays NaN, everything above c becomes c.
FClampMax(x, c) == IF IsNaN(x) THEN NaN ELSE IF FLe(x, c) THEN x ELSE c

RECURSIVE FSum(_)
FSum(v) == IF v = <<>> THEN Num(0) ELSE FAdd(Head(v), FSum(Tail(v)))

\* Tensor.square().mean()
MeanSquare(v) ==
    FDiv(FSum([i \in 1..Len(v) |-> FMul(v[i], v[i])]), Num(Len(v)))

zeros_like(v) == [i \in 1..Len(v) |-> Num(0)]

AnyNaN(v) == \E i \in 1..Len(v) : IsNaN(v[i])

AllFinite(v) == \A i \in 1..Len(v) : IsFinite(v[i])

(***************************************************************************)
(* cond_fn, lines 643-654: from the accumulated raw gradient x_in_grad to  *)
(* the gradient handed back to the sampler.                                *)
(***************************************************************************)
\* torch.autograd.grad(x_in, x, x_in_grad)[0]: the vector-Jacobian product of
\* x_in = pred_xstart * fac + x * (1 - fac) with respect to x.  jac[k][i] is
\* d x_in[k] / d x[i]; a zero entry is an absent dependency and adds no term.
VJP(jac, v) ==
    [i \in 1..Len(v) |->
        FSum([k \in 1..Len(v) |->
                IF jac[k][i] = 0 THEN Num(0) ELSE FMul(Num(jac[k][i]), v[k])])]

\* Lines 644-648.
GradOrZero(jac, x_in_grad) ==
    IF ~AnyNaN(x_in_grad)
    THEN [x_is_NaN |-> FALSE,
          grad |-> [i \in 1..Len(x_in_grad) |-> FNeg(VJP(jac, x_in_grad)[i])]]
    ELSE [x_is_NaN |-> TRUE, grad |-> zeros_like(x_in_grad)]

\* Lines 650-653.
ClampToMaxAlways(grad, clamp_max) ==
    [i \in 1..Len(grad) |-> FDiv(FMul(grad[i], clamp_max), FSqrt(MeanSquare(grad)))]

ClampGrad(grad, clamp_max) ==
    LET magnitude == FSqrt(MeanSquare(grad))
    IN  [i \in 1..Len(grad) |->
            FDiv(FMul(grad[i], FClampMax(magnitude, clamp_max)), magnitude)]

\* Lines 644-654.
cond_fn_grad(jac, x_in_grad, clamp_grad, clamp_max) ==
    LET r == GradOrZero(jac, x_in_grad)
    IN  [x_is_NaN |-> r.x_is_NaN,
         clamped |-> clamp_grad /\ ~r.x_is_NaN,
         grad |-> IF clamp_grad /\ ~r.x_is_NaN
                  THEN ClampGrad(r.grad, clamp_max)
                  ELSE r.grad]

(***************************************************************************)
(* Strings, str.rsplit, float() and parse_prompt (lines 203-210).          *)
(***************************************************************************)
Colon == ":"

Http == <<"h", "t", "t", "p", ":", "/", "/">>

Https == <<"h", "t", "t", "p", "s", ":", "/", "/">>

startswith(s, pre) == Len(s) >= Len(pre) /\ SubSeq(s, 1, Len(pre)) = pre

HasColon(s) == \E i \in 1..Len(s) : s[i] = Colon

LastColon(s) == CHOOSE i \in 1..Len(s) : s[i] = Colon /\ \A m \in (i + 1)..Len(s) : s[m] # Colon

\* s.rsplit(':', maxsplit)
RECURSIVE rsplit(_, _)
rsplit(s, maxsplit) ==
    IF maxsplit = 0 \/ ~HasColon(s) THEN <<s>>
    ELSE rsplit(SubSeq(s, 1, LastColon(s) - 1), maxsplit - 1)
         \o <<SubSeq(s, LastColon(s) + 1, Len(s))>>

Digits == {"0", "1", "2", "3", "4", "5", "6", "7", "8", "9"}

DigitVal(c) == CHOOSE v \in 0..9 : <<"0", "1", "2", "3", "4", "5", "6", "7", "8", "9">>[v + 1] = c

RECURSIVE Pow10(_)
Pow10(e) == IF e = 0 THEN 1 ELSE 10 * Pow10(e - 1)

RECURSIVE DigitsVal(_)
DigitsVal(s) == IF s = <<>> THEN 0 ELSE 10 * DigitsVal(SubSeq(s, 1, Len(s) - 1)) + DigitVal(s[Len(s)])

\* Weights are kept in units of 10^-FracDigits.
WeightUnit == Pow10(FracDigits)

\* float(s) for the literals the model's alphabet can spell: an optional sign,
\* digits, at most one point, at least one digit.  Anything else is a
\* ValueError.
float(s) ==
    LET signed == s # <<>> /\ s[1] \in {"-", "+"}
        body == IF signed THEN Tail(s) ELSE s
        dots == {i \in 1..Len(body) : body[i] = "."}
        ok == /\ \A i \in 1..Len(body) : body[i] \in Digits \cup {"."}
              /\ Cardinality(dots) <= 1
              /\ \E i \in 1..Len(body) : body[i] \in Digits
        dot == IF dots = {} THEN Len(body) + 1 ELSE CHOOSE i \in dots : TRUE
        ip == SubSeq(body, 1, dot - 1)
        fp == SubSeq(body, dot + 1, Len(body))
        frac == IF Len(fp) <= FracDigits
                THEN DigitsVal(fp) * Pow10(FracDigits - Len(fp))
                ELSE DigitsVal(fp) \div Pow10(Len(fp) - FracDigits)
        mag == DigitsVal(ip) * WeightUnit + frac
    IN  IF ~ok THEN [ok |-> FALSE, val |-> 0]
        ELSE [ok |-> TRUE, val |-> IF signed /\ s[1] = "-" THEN -mag ELSE mag]

Returned(text, w) ==
    IF w.ok THEN [exc |-> "none", text |-> text, weight |-> w.val]
    ELSE [exc |-> "ValueError", text |-> <<>>, weight |-> 0]

parse_prompt(prompt) ==
    LET vals == IF startswith(prompt, Http) \/ startswith(prompt, Https)
                THEN LET v == rsplit(prompt, 2)
                     IN  <<v[1] \o <<Colon>> \o v[2]>> \o SubSeq(v, 3, Len(v))
                ELSE rsplit(prompt, 1)
        padded == vals \o SubSeq(<<<<>>, <<"1">>>>, Len(vals) + 1, 2)
    IN  Returned(padded[1], float(padded[2]))

(***************************************************************************)
(* The cutout generators.  A view is what one entry of the returned batch  *)
(* was made of; resizing gives it the side cut_size.                       *)
(***************************************************************************)
View(kind, gray, flip) ==
    [kind |-> kind, gray |-> gray, flip |-> flip, size |-> 0, augs |-> FALSE]

\* resize(..., out_shape=output_shape) and resample(cutout, (cut_size, cut_size))
resize(v, cut_size) == [v EXCEPT !.size = cut_size]

augs(v) == [v EXCEPT !.augs = TRUE]

\* torch.cat of a list of tensors: an empty list is a RuntimeError.
cat(views) ==
    IF views = <<>> THEN [exc |-> "RuntimeError", isNone |-> FALSE, views |-> <<>>]
    ELSE [exc |-> "none", isNone |-> FALSE, views |-> views]

ReturnNone == [exc |-> "none", isNone |-> TRUE, views |-> <<>>]

\* int(self.IC_Grey_P * self.InnerCrop), IC_Grey_P = p[1] / p[2]
GreyCount(p, InnerCrop) == (p[1] * InnerCrop) \div p[2]

\* MakeCutoutsDango.forward, lines 375-388
OverviewViews(Overview, cut_size) ==
    LET cutout == resize(View("overview", FALSE, FALSE), cut_size)
        gray(v) == [v EXCEPT !.gray = TRUE]
        hflip(v) == [v EXCEPT !.flip = TRUE]
    IN  IF Overview > 0
        THEN IF Overview <= 4
             THEN (IF Overview >= 1 THEN <<cutout>> ELSE <<>>)
                  \o (IF Overview >= 2 THEN <<gray(cutout)>> ELSE <<>>)
                  \o (IF Overview >= 3 THEN <<hflip(cutout)>> ELSE <<>>)
                  \o (IF Overview = 4 THEN <<gray(hflip(cutout))>> ELSE <<>>)
             ELSE [i \in 1..Overview |-> cutout]
        ELSE <<>>

\* MakeCutoutsDango.forward, lines 390-402; i runs over range(InnerCrop)
InnerViews(InnerCrop, IC_Grey_P, cut_size) ==
    IF InnerCrop > 0
    THEN [m \in 1..InnerCrop |->
            LET i == m - 1
            IN  resize(View("inner", i <= GreyCount(IC_Grey_P, InnerCrop), FALSE),
                       cut_size)]
    ELSE <<>>

\* MakeCutoutsDango.forward, lines 356-408; skip is the module's skip_augs
MakeCutoutsDango_forward(cut_size, Overview, InnerCrop, IC_Grey_P, skip) ==
    LET cutouts == cat(OverviewViews(Overview, cut_size)
                       \o InnerViews(InnerCrop, IC_Grey_P, cut_size))
    IN  IF cutouts.exc # "none" THEN cutouts
        ELSE IF skip # TRUE
        THEN [cutouts EXCEPT !.views = [i \in 1..Len(cutouts.views) |-> augs(cutouts.views[i])]]
        ELSE ReturnNone

\* MakeCutouts.forward, lines 299-327; skip is self.skip_augs
MakeCutouts_forward(cut_size, cutn, skip) ==
    cat([m \in 1..cutn |->
            LET ch == m - 1
                cutout == IF ch > cutn - cutn \div 4
                          THEN View("full", FALSE, FALSE)
                          ELSE View("crop", FALSE, FALSE)
            IN  resize(IF ~skip THEN augs(cutout) ELSE cutout, cut_size)])

(***************************************************************************)
(* The diffusion model and its sampler, as do_run uses them.               *)
(***************************************************************************)
\* The constant of cond_fn's schedule index, 1000 - t_int (lines 605-608).
ScheduleBase == 1000

\* load_diffusion_model, line 181
diffusion_steps(steps) ==
    IF steps < 1000 THEN (1000 \div steps) * steps ELSE steps

\* diffusion.num_timesteps under timestep_respacing = 'ddim<steps>' (line 180)
num_timesteps(steps) == steps

\* The timestep the sampler hands to cond_fn for timestep index i: the retained
\* original timestep i * stride, rescaled to 0..1000 (rescale_timesteps is True,
\* line 158), truncated by int(t.item()) at line 592.
SamplerT(steps, i) ==
    LET stride == diffusion_steps(steps) \div num_timesteps(steps)
    IN  (i * stride * 1000) \div diffusion_steps(steps)

\* eval(args.cut_overview) and the like (lines 448-450): schedules of the
\* shape of the defaults, '[a]*400+[b]*(len-400)', of length len.
Schedule(len, a, b) == [len |-> len, split |-> 400, a |-> a, b |-> b]

\* Python's list[idx]: negative indices count from the end.
InRange(sched, idx) == -sched.len <= idx /\ idx < sched.len

GetItem(sched, idx) ==
    LET pos == IF idx < 0 THEN idx + sched.len ELSE idx
    IN  IF pos < sched.split THEN sched.a ELSE sched.b

cut_overview(a) == Schedule(a.cut_len, 12, 4)

cut_innercut(a) == Schedule(a.cut_len, 4, 12)

cut_icgray_p(a) == Schedule(a.cut_len, <<1, 5>>, <<0, 1>>)

(***************************************************************************)
(* do_run, lines 537-556: the per-model prompt weights.                    *)
(***************************************************************************)
RECURSIVE SumInts(_)
SumInts(ws) == IF ws = <<>> THEN 0 ELSE Head(ws) + SumInts(Tail(ws))

\* Lines 552-555 for one model: ws are the parsed weights, in weight units.
NormalizeNoCheck(ws) ==
    [exc |-> "none",
     weights |-> [i \in 1..Len(ws) |-> FDiv(Num(ws[i]), Num(Abs(SumInts(ws))))]]

NormalizeWeights(ws) ==
    IF Abs(SumInts(ws)) * 1000 < WeightUnit
    THEN [exc |-> "RuntimeError", weights |-> <<>>]
    ELSE [exc |-> "none",
          weights |-> [i \in 1..Len(ws) |-> FDiv(Num(ws[i]), Num(Abs(SumInts(ws))))]]

\* Lines 545-549 for one model: parse_prompt on every prompt.
ParsedPrompts(prompts) == [i \in 1..Len(prompts) |-> parse_prompt(prompts[i])]

PromptsRaise(prompts) == \E i \in 1..Len(prompts) : ParsedPrompts(prompts)[i].exc # "none"

PromptWeights(prompts) == [i \in 1..Len(prompts) |-> ParsedPrompts(prompts)[i].weight]

\* clip_model.encode_text(clip.tokenize(s)): the embedding, kept as the string
\* it was computed from.
encode_text(s) == [encoded |-> s]

\* Lines 545-548 for one model: the embedding appended for every prompt.
TargetEmbeds(prompts) == [i \in 1..Len(prompts) |-> encode_text(prompts[i])]

(***************************************************************************)
(* Bounds and the inputs drawn from them.                                  *)
(***************************************************************************)
MaxSteps == 4

MaxSkip == 1

MaxRate == 2

MaxBatch == 2

\* args.seed, the base seed of the run.
BaseSeeds == {3}

MaxClip == 1

\* text_prompts: 'a', 'a:2', 'a:-1', 'a:.0005' and the malformed 'a:b'.
PromptA == <<"a">>

PromptA2 == <<"a", ":", "2">>

PromptAm1 == <<"a", ":", "-", "1">>

PromptAeps == <<"a", ":", ".", "0", "0", "0", "5">>

PromptAb == <<"a", ":", "b">>

PromptLists ==
    {<<PromptA2, PromptAm1>>, <<PromptAm1>>, <<PromptA, PromptAm1>>,
     <<PromptAeps>>, <<PromptAb>>}

JacIdentity == <<<<1, 0>>, <<0, 1>>>>

JacOnes == <<<<1, 1>>, <<1, 1>>>>

\* The raw gradients a step of the run may accumulate.
RunRawGrads ==
    {<<Num(1), Num(7)>>, <<Num(0), Num(0)>>, <<NaN, Num(1)>>, <<Num(1), PInf>>}

ClampConfigs ==
    {[clamp_grad |-> FALSE, clamp_max |-> Num(1)],
     [clamp_grad |-> TRUE, clamp_max |-> Num(1)]}

ArgsOfSteps(st) ==
    {[steps |-> st, skip_steps |-> sk, display_rate |-> dr, batch_size |-> bs,
      seed |-> sd, clamp_grad |-> cc.clamp_grad, clamp_max |-> cc.clamp_max,
      text_prompts |-> tp, cut_len |-> cl, n_clip |-> nc] :
        sk \in 0..MaxSkip, dr \in 1..MaxRate, bs \in 1..MaxBatch,
        sd \in BaseSeeds, cc \in ClampConfigs, tp \in PromptLists,
        cl \in {ScheduleBase, diffusion_steps(st)}, nc \in 1..MaxClip}

RunArgs == UNION {ArgsOfSteps(st) : st \in 2..MaxSteps}

NoCall ==
    [called |-> FALSE, i |-> 0, cur_t |-> 0, idx |-> 0, x_in_grad |-> <<>>,
     x_is_NaN |-> FALSE, clamped |-> FALSE, grad |-> <<>>]

None == [isNone |-> TRUE, frames |-> <<>>]

IdleG == [state |-> "idle"]

IdleP == [state |-> "idle"]

IdleC == [state |-> "idle"]

(***************************************************************************)
(* create and do_run.                                                      *)
(***************************************************************************)
InitRun ==
    /\ args \in RunArgs
    /\ skip_augs \in BOOLEAN
    /\ pc = "create"
    /\ exc = "none"
    /\ retval = None
    /\ rng_seed = -1
    /\ org_seed = -1
    /\ nb = 0
    /\ cur_t = -1
    /\ j = 0
    /\ sampler = -1
    /\ model_stats = <<>>
    /\ last = NoCall
    /\ d_chunks = <<>>
    /\ sprites = [b \in 0..(args.batch_size - 1) |-> <<>>]
    /\ runs = <<>>
    /\ interrupted = FALSE

IdleOthers == gcall = IdleG /\ pcall = IdleP /\ ccall = IdleC

Init == InitRun /\ IdleOthers

\* An exception other than KeyboardInterrupt leaves do_run and, through the
\* finally clause (lines 255-256), create.
Raise(e) ==
    /\ pc' = "raised"
    /\ exc' = e

\* create, lines 247-252: the models are loaded and do_run is called with the
\* argument namespace.
Create ==
    /\ pc = "create"
    /\ pc' = "do_run"
    /\ UNCHANGED <<args, exc, retval, rng_seed, org_seed, nb, cur_t, j, sampler,
                   model_stats, last, d_chunks, sprites, runs, interrupted,
                   skip_augs, gcall, pcall, ccall>>

\* do_run, lines 437-556 and 665, when an exception ends it: parse_prompt's
\* float() fails (line 546) or the weights sum to zero (line 554).
DoRunPrepareRaises ==
    /\ pc = "do_run"
    /\ args.n_clip > 0
    /\ \/ /\ PromptsRaise(args.text_prompts)
          /\ Raise("ValueError")
       \/ /\ ~PromptsRaise(args.text_prompts)
          /\ NormalizeWeights(PromptWeights(args.text_prompts)).exc # "none"
          /\ Raise(NormalizeWeights(PromptWeights(args.text_prompts)).exc)
    /\ rng_seed' = args.seed
    /\ UNCHANGED <<args, retval, org_seed, nb, cur_t, j, sampler, model_stats,
                   last, d_chunks, sprites, runs, interrupted, skip_augs, gcall,
                   pcall, ccall>>

\* do_run, lines 437-556 and 665: the seed is set, model_stats is built for
\* every clip model, org_seed is taken.
DoRunPrepare ==
    /\ pc = "do_run"
    /\ args.n_clip > 0 =>
          /\ ~PromptsRaise(args.text_prompts)
          /\ NormalizeWeights(PromptWeights(args.text_prompts)).exc = "none"
    /\ model_stats' =
          [m \in 1..args.n_clip |->
              [target_embeds |-> TargetEmbeds(args.text_prompts),
               weights |-> NormalizeWeights(PromptWeights(args.text_prompts)).weights]]
    /\ rng_seed' = args.seed
    /\ org_seed' = args.seed
    /\ nb' = 0
    /\ pc' = "batch"
    /\ UNCHANGED <<args, exc, retval, cur_t, j, sampler, last, d_chunks, sprites,
                   runs, interrupted, skip_augs, gcall, pcall, ccall>>

\* The batch element begun without line 680: cur_t keeps the value the last
\* element left in it.
BatchBeginNoReset ==
    /\ pc = "batch"
    /\ nb < args.batch_size
    /\ rng_seed' = org_seed + nb
    /\ args' = [args EXCEPT !.seed = org_seed + nb]
    /\ d_chunks' = <<>>
    /\ sampler' = num_timesteps(args.steps) - args.skip_steps - 1
    /\ runs' = Append(runs, [nb |-> nb, seed |-> org_seed + nb,
                             images |-> args.batch_size])
    /\ j' = 0
    /\ pc' = "sampling"
    /\ UNCHANGED <<exc, retval, org_seed, nb, cur_t, model_stats, last, sprites,
                   interrupted, skip_augs, gcall, pcall, ccall>>

\* do_run, lines 666-712: the next batch element is seeded, cur_t is reset
\* and the sampler's generator is made for a sample of batch_size images.
BatchBegin ==
    /\ pc = "batch"
    /\ nb < args.batch_size
    /\ rng_seed' = org_seed + nb
    /\ args' = [args EXCEPT !.seed = org_seed + nb]
    /\ d_chunks' = <<>>
    /\ cur_t' = num_timesteps(args.steps) - args.skip_steps - 1
    /\ sampler' = num_timesteps(args.steps) - args.skip_steps - 1
    /\ runs' = Append(runs, [nb |-> nb, seed |-> org_seed + nb,
                             images |-> args.batch_size])
    /\ j' = 0
    /\ pc' = "sampling"
    /\ UNCHANGED <<exc, retval, org_seed, nb, model_stats, last, sprites,
                   interrupted, skip_augs, gcall, pcall, ccall>>

\* cond_fn, lines 589-610, for the timestep index i the sampler handles: the
\* schedule lookups at 1000 - t_int and the cutouts.  The exception raised, or
\* "none".
CondFnLookups(a, stats, skip, i) ==
    LET t_int == SamplerT(a.steps, i) + 1
        idx == ScheduleBase - t_int
        cuts == MakeCutoutsDango_forward(224, GetItem(cut_overview(a), idx),
                                         GetItem(cut_innercut(a), idx),
                                         GetItem(cut_icgray_p(a), idx), skip)
    IN  IF stats = <<>> THEN "none"
        ELSE IF ~(/\ InRange(cut_overview(a), idx)
                  /\ InRange(cut_innercut(a), idx)
                  /\ InRange(cut_icgray_p(a), idx)) THEN "IndexError"
        ELSE IF cuts.exc # "none" THEN cuts.exc
        ELSE IF cuts.isNone THEN "TypeError"
        ELSE "none"

\* One step of the sampler's generator in which cond_fn raises.
SamplerStepRaises ==
    /\ pc = "sampling"
    /\ sampler >= 0
    /\ CondFnLookups(args, model_stats, skip_augs, sampler) # "none"
    /\ Raise(CondFnLookups(args, model_stats, skip_augs, sampler))
    /\ last' = [NoCall EXCEPT !.called = TRUE, !.i = sampler, !.cur_t = cur_t,
                              !.idx = ScheduleBase - (SamplerT(args.steps, sampler) + 1)]
    /\ UNCHANGED <<args, retval, rng_seed, org_seed, nb, cur_t, j, sampler,
                   model_stats, d_chunks, sprites, runs, interrupted, skip_augs,
                   gcall, pcall, ccall>>

\* One step of the sampler's generator: it calls cond_fn for its timestep
\* index, takes the gradient and yields the sample.
SamplerStep ==
    /\ pc = "sampling"
    /\ sampler >= 0
    /\ CondFnLookups(args, model_stats, skip_augs, sampler) = "none"
    /\ \E x_in_grad \in RunRawGrads, jac \in {JacIdentity} :
          LET r == cond_fn_grad(jac, x_in_grad, args.clamp_grad, args.clamp_max)
          IN  last' = [called |-> TRUE, i |-> sampler, cur_t |-> cur_t,
                       idx |-> ScheduleBase - (SamplerT(args.steps, sampler) + 1),
                       x_in_grad |-> x_in_grad, x_is_NaN |-> r.x_is_NaN,
                       clamped |-> r.clamped, grad |-> r.grad]
    /\ sampler' = sampler - 1
    /\ pc' = "yielded"
    /\ UNCHANGED <<args, exc, retval, rng_seed, org_seed, nb, cur_t, j,
                   model_stats, d_chunks, sprites, runs, interrupted, skip_augs,
                   gcall, pcall, ccall>>

\* Line 718.
ShouldCaptureNoFinal(jj, display_rate, ct) == jj % display_rate = 0

ShouldCapture(jj, display_rate, ct) == jj % display_rate = 0 \/ ct = -1

\* Lines 719-723: one chunk per image of the sample, tagged with cur_t.
Chunks(ct, n_images) == [m \in 1..n_images |-> [cur_t |-> ct, image |-> m - 1]]

\* do_run, lines 715-731: the body of the loop over the yielded samples.
LoopBody ==
    /\ pc = "yielded"
    /\ cur_t' = cur_t - 1
    /\ IF ShouldCapture(j, args.display_rate, cur_t - 1)
       THEN /\ d_chunks' = d_chunks \o Chunks(cur_t - 1, args.batch_size)
            /\ sprites' = [sprites EXCEPT ![nb] = d_chunks \o Chunks(cur_t - 1, args.batch_size)]
       ELSE UNCHANGED <<d_chunks, sprites>>
    /\ j' = j + 1
    /\ pc' = "sampling"
    /\ UNCHANGED <<args, exc, retval, rng_seed, org_seed, nb, sampler,
                   model_stats, last, runs, interrupted, skip_augs, gcall, pcall,
                   ccall>>

\* do_run, lines 715 and 733-734: the generator is exhausted, the loop over
\* the samples ends and the batch loop moves on.
BatchEnd ==
    /\ pc = "sampling"
    /\ sampler < 0
    /\ nb' = nb + 1
    /\ pc' = "batch"
    /\ UNCHANGED <<args, exc, retval, rng_seed, org_seed, cur_t, j, sampler,
                   model_stats, last, d_chunks, sprites, runs, interrupted,
                   skip_augs, gcall, pcall, ccall>>

\* do_run ends after the last batch element (line 735) without a return
\* statement; create returns that value (line 252).
DoRunReturn ==
    /\ pc = "batch"
    /\ nb >= args.batch_size
    /\ retval' = None
    /\ pc' = "returned"
    /\ UNCHANGED <<args, exc, rng_seed, org_seed, nb, cur_t, j, sampler,
                   model_stats, last, d_chunks, sprites, runs, interrupted,
                   skip_augs, gcall, pcall, ccall>>

\* A KeyboardInterrupt between two steps of the sampler: it leaves do_run, is
\* caught at lines 253-254 and create falls off its end.
Interrupt ==
    /\ pc = "sampling"
    /\ interrupted' = TRUE
    /\ retval' = None
    /\ pc' = "returned"
    /\ UNCHANGED <<args, exc, rng_seed, org_seed, nb, cur_t, j, sampler,
                   model_stats, last, d_chunks, sprites, runs, skip_augs, gcall,
                   pcall, ccall>>

Next ==
    \/ Create
    \/ DoRunPrepareRaises
    \/ DoRunPrepare
    \/ BatchBegin
    \/ SamplerStepRaises
    \/ SamplerStep
    \/ LoopBody
    \/ BatchEnd
    \/ DoRunReturn
    \/ Interrupt

Spec == Init /\ [][Next]_vars

(***************************************************************************)
(* The pure functions on their own: each specification draws the inputs    *)
(* of one function in its initial states and applies the function.         *)
(***************************************************************************)
NoArgs == [steps |-> 0]

IdleRun ==
    /\ args = NoArgs
    /\ skip_augs = FALSE
    /\ pc = "idle"
    /\ exc = "none"
    /\ retval = None
    /\ rng_seed = -1
    /\ org_seed = -1
    /\ nb = 0
    /\ cur_t = -1
    /\ j = 0
    /\ sampler = -1
    /\ model_stats = <<>>
    /\ last = NoCall
    /\ d_chunks = <<>>
    /\ sprites = <<>>
    /\ runs = <<>>
    /\ interrupted = FALSE

\* ---- cond_fn's gradient tail ----
RawElems == {Num(-7), Num(-1), Num(1), Num(7), NaN, PInf, NInf}

\* Every finite pair drawn has a rational root-mean-square.
RawGrads == {<<a, b>> : a \in RawElems, b \in RawElems} \cup {<<Num(0), Num(0)>>}

ClampMaxes == {Rat(1, 2), Num(5), Num(10)}

GradCalls ==
    {[state |-> "call", jac |-> jac, x_in_grad |-> g, clamp_grad |-> cg,
      clamp_max |-> cm, x_is_NaN |-> FALSE, clamped |-> FALSE, grad |-> <<>>] :
        jac \in {JacIdentity, JacOnes}, g \in RawGrads, cg \in BOOLEAN,
        cm \in ClampMaxes}

InitGrad == IdleRun /\ gcall \in GradCalls /\ pcall = IdleP /\ ccall = IdleC

CondFnTail ==
    /\ gcall.state = "call"
    /\ LET r == cond_fn_grad(gcall.jac, gcall.x_in_grad, gcall.clamp_grad,
                             gcall.clamp_max)
       IN  gcall' = [gcall EXCEPT !.state = "done", !.x_is_NaN = r.x_is_NaN,
                                  !.clamped = r.clamped, !.grad = r.grad]
    /\ UNCHANGED <<runVars, pcall, ccall>>

SpecGrad == InitGrad /\ [][CondFnTail]_vars

\* ---- parse_prompt ----
MaxBody == 3

ParseAlphabet == {"a", ":", "2", "."}

Bodies == UNION {[1..n -> ParseAlphabet] : n \in 0..MaxBody}

Prompts == {pre \o body : pre \in {<<>>, Http, Https}, body \in Bodies}

InitParse ==
    /\ IdleRun
    /\ gcall = IdleG
    /\ ccall = IdleC
    /\ pcall \in {[state |-> "call", prompt |-> p, result |-> Returned(<<>>, float(<<>>))] :
                    p \in Prompts}

ParsePrompt ==
    /\ pcall.state = "call"
    /\ pcall' = [pcall EXCEPT !.state = "done", !.result = parse_prompt(pcall.prompt)]
    /\ UNCHANGED <<runVars, gcall, ccall>>

SpecParse == InitParse /\ [][ParsePrompt]_vars

\* ---- the cutout generators ----
MaxOverview == 5

MaxInner == 3

MaxCutn == 9

GreyPs == {<<0, 1>>, <<1, 5>>, <<1, 2>>, <<1, 1>>}

CutCalls ==
    {[state |-> "call", fn |-> "MakeCutoutsDango", cut_size |-> 224,
      Overview |-> ov, InnerCrop |-> ic, IC_Grey_P |-> p, cutn |-> 0,
      skip_augs |-> sa, out |-> ReturnNone] :
        ov \in 0..MaxOverview, ic \in 0..MaxInner, p \in GreyPs, sa \in BOOLEAN}
    \cup
    {[state |-> "call", fn |-> "MakeCutouts", cut_size |-> 224,
      Overview |-> 0, InnerCrop |-> 0, IC_Grey_P |-> <<0, 1>>, cutn |-> cn,
      skip_augs |-> sa, out |-> ReturnNone] :
        cn \in 0..MaxCutn, sa \in BOOLEAN}

InitCut == IdleRun /\ gcall = IdleG /\ pcall = IdleP /\ ccall \in CutCalls

DangoForward ==
    /\ ccall.state = "call"
    /\ ccall.fn = "MakeCutoutsDango"
    /\ ccall' = [ccall EXCEPT !.state = "done",
                              !.out = MakeCutoutsDango_forward(ccall.cut_size,
                                          ccall.Overview, ccall.InnerCrop,
                                          ccall.IC_Grey_P, ccall.skip_augs)]
    /\ UNCHANGED <<runVars, gcall, pcall>>

RandomForward ==
    /\ ccall.state = "call"
    /\ ccall.fn = "MakeCutouts"
    /\ ccall' = [ccall EXCEPT !.state = "done",
                              !.out = MakeCutouts_forward(ccall.cut_size,
                                          ccall.cutn, ccall.skip_augs)]
    /\ UNCHANGED <<runVars, gcall, pcall>>

NextCut == DangoForward \/ RandomForward

SpecCut == InitCut /\ [][NextCut]_vars

(***************************************************************************)
(* The claims.                                                             *)
(***************************************************************************)
AllZero(v) == \A i \in 1..Len(v) : v[i] = Num(0)

NonFinite(v) == \E i \in 1..Len(v) : ~IsFinite(v[i])

\* C1: whenever cond_fn has accumulated a raw gradient x_in_grad with a
\* non-finite value (NaN, +inf or -inf) in any position, the gradient it returns
\* is all zero, of the shape of x, and the clamp step was skipped.
C1_NonFiniteGivesZero ==
    (last.called /\ pc = "yielded" /\ NonFinite(last.x_in_grad)) =>
        /\ Len(last.grad) = Len(last.x_in_grad)
        /\ AllZero(last.grad)
        /\ ~last.clamped

\* C2: the gradient cond_fn returns to the sampler holds no NaN, whatever the
\* input and the clamp configuration.
C2_NoNaNReturned ==
    (last.called /\ pc = "yielded") => ~AnyNaN(last.grad)

\* The gradient before the clamp step (line 645) and its root-mean-square.
PreClamp(c) == GradOrZero(c.jac, c.x_in_grad).grad

Rms(v) == FSqrt(MeanSquare(v))

FLt(x, y) == FLe(x, y) /\ x # y

Scaled(v, f) == [i \in 1..Len(v) |-> FMul(v[i], f)]

\* C3: with clamp_grad on and a finite gradient of root-mean-square M: if
\* M > clamp_max the returned gradient is the gradient times clamp_max / M and
\* its root-mean-square is clamp_max; if 0 < M <= clamp_max it is returned
\* unchanged; either way the returned root-mean-square is at most clamp_max.
C3_ClampRescales ==
    (/\ gcall.state = "done"
     /\ gcall.clamp_grad
     /\ AllFinite(PreClamp(gcall))
     /\ FLt(Num(0), Rms(PreClamp(gcall)))) =>
        LET g == PreClamp(gcall)
            M == Rms(g)
        IN  /\ FLt(gcall.clamp_max, M) =>
                /\ gcall.grad = Scaled(g, FDiv(gcall.clamp_max, M))
                /\ Rms(gcall.grad) = gcall.clamp_max
            /\ FLe(M, gcall.clamp_max) => gcall.grad = g
            /\ FLe(Rms(gcall.grad), gcall.clamp_max)

\* C3's case: a finite gradient whose root-mean-square exceeds clamp_max has
\* been clamped.
C3_Witness ==
    /\ gcall.state = "done"
    /\ gcall.clamp_grad
    /\ AllFinite(PreClamp(gcall))
    /\ FLt(gcall.clamp_max, Rms(PreClamp(gcall)))
    /\ gcall.grad # PreClamp(gcall)

\* C4: when the cutout schedules are exactly as long as the total number of
\* diffusion steps, every schedule lookup of cond_fn, at every timestep of the
\* run, is inside the bounds and does not raise.
C4_LookupsInBounds ==
    (args.cut_len = diffusion_steps(args.steps)) =>
        /\ exc # "IndexError"
        /\ last.called =>
              /\ InRange(cut_overview(args), last.idx)
              /\ InRange(cut_innercut(args), last.idx)
              /\ InRange(cut_icgray_p(args), last.idx)

\* What the claim C5 expects of parse_prompt.
IsUrl(p) == startswith(p, Http) \/ startswith(p, Https)

BeforeLastColon(p) == SubSeq(p, 1, LastColon(p) - 1)

AfterLastColon(p) == SubSeq(p, LastColon(p) + 1, Len(p))

HasWeightSuffix(p) == HasColon(p) /\ float(AfterLastColon(p)).ok

One == float(<<"1">>)

C5_Expected(p) ==
    IF ~HasColon(p) THEN Returned(p, One)
    ELSE IF ~IsUrl(p) THEN Returned(BeforeLastColon(p), float(AfterLastColon(p)))
    ELSE IF HasWeightSuffix(p) THEN Returned(BeforeLastColon(p), float(AfterLastColon(p)))
    ELSE Returned(p, One)

\* C5: parse_prompt returns the whole prompt and 1.0 when there is no colon;
\* text and float(w), split at the last colon, for a non-URL 'text:w'; and for
\* a URL only the final colon-delimited segment counts as the weight: the URL
\* with weight w when it carries a ':w' suffix, the whole URL with weight 1.0
\* when it does not, whatever other colons it holds.
C5_ParsePrompt ==
    pcall.state = "done" => pcall.result = C5_Expected(pcall.prompt)

\* The weights of the run's prompts and whether they sum to (near) zero.
RunWeights == PromptWeights(args.text_prompts)

NearZero == Abs(SumInts(RunWeights)) * 1000 < WeightUnit

\* C6: if the prompt weights of an enabled model sum to (near) zero, do_run
\* raises before the sampler is invoked for any batch element, so no step runs
\* and no frame is captured; otherwise the weights of each model are divided by
\* the absolute value of their sum and sum to 1 in absolute value.
C6_ZeroWeightsFailFast ==
    (pc # "idle" /\ args.n_clip > 0 /\ ~PromptsRaise(args.text_prompts)) =>
        /\ NearZero =>
              /\ pc \in {"create", "do_run", "raised"}
              /\ pc = "raised" => exc = "RuntimeError"
              /\ runs = <<>>
              /\ ~last.called
              /\ \A b \in DOMAIN sprites : sprites[b] = <<>>
        /\ (~NearZero /\ pc \notin {"create", "do_run"}) =>
              /\ Len(model_stats) = args.n_clip
              /\ \A m \in 1..Len(model_stats) :
                    /\ Len(model_stats[m].weights) = Len(RunWeights)
                    /\ \A i \in 1..Len(RunWeights) :
                          model_stats[m].weights[i]
                            = Rat(RunWeights[i], Abs(SumInts(RunWeights)))
                    /\ FSum(model_stats[m].weights) \in {Num(1), Num(-1)}

\* C6's case: weights that sum to nearly, not exactly, zero made do_run raise.
C6_Witness ==
    /\ pc = "raised"
    /\ exc = "RuntimeError"
    /\ args.n_clip > 0
    /\ NearZero
    /\ SumInts(RunWeights) # 0

\* C7: MakeCutoutsDango.forward returns Overview + InnerCrop views of side
\* cut_size, with augmentation and with skip_augs True (then unaugmented), for
\* all counts >= 0; MakeCutouts.forward returns cutn views of side cut_size.
C7_CutoutCounts ==
    ccall.state = "done" =>
        /\ ccall.out.exc = "none"
        /\ ~ccall.out.isNone
        /\ Len(ccall.out.views)
             = (IF ccall.fn = "MakeCutoutsDango"
                THEN ccall.Overview + ccall.InnerCrop ELSE ccall.cutn)
        /\ \A i \in 1..Len(ccall.out.views) :
              /\ ccall.out.views[i].size = ccall.cut_size
              /\ ccall.out.views[i].augs = ~ccall.skip_augs

\* The outputs of the run: every image of every sampler invocation, with the
\* seed it was generated under.
RECURSIVE Outputs(_)
Outputs(rs) ==
    IF rs = <<>> THEN <<>>
    ELSE Outputs(SubSeq(rs, 1, Len(rs) - 1))
         \o [m \in 1..rs[Len(rs)].images |-> [nb |-> rs[Len(rs)].nb, seed |-> rs[Len(rs)].seed]]

\* C8: a run with batch_size B and base seed S generates exactly B outputs, one
\* after another, output i by its own sampler invocation seeded with S + i, so
\* that no two outputs share a seed.
C8_OneOutputPerSeed ==
    (pc = "returned" /\ ~interrupted) =>
        /\ Len(Outputs(runs)) = args.batch_size
        /\ \A i \in 1..Len(Outputs(runs)) : Outputs(runs)[i].seed = org_seed + (i - 1)
        /\ \A i, k \in 1..Len(Outputs(runs)) :
              i # k => Outputs(runs)[i].seed # Outputs(runs)[k].seed

\* The number of steps the sampler yields for one batch element.
Yields == IF num_timesteps(args.steps) - args.skip_steps > 0
          THEN num_timesteps(args.steps) - args.skip_steps ELSE 0

\* The chunks the claim C9 expects after the first n yielded steps of a batch
\* element, the frame of step jj being tagged tag[jj].
RECURSIVE ExpectedChunks(_, _)
ExpectedChunks(n, tag) ==
    IF n = 0 THEN <<>>
    ELSE ExpectedChunks(n - 1, tag)
         \o (IF (n - 1) % args.display_rate = 0 \/ n - 1 = Yields - 1
             THEN Chunks(tag[n - 1], args.batch_size) ELSE <<>>)

\* The timestep index of step jj, which is also the number of steps left after it.
StepsRemaining == [jj \in 0..Yields |-> Yields - 1 - jj]

\* cur_t after the decrement of step jj.
CurTAfter == [jj \in 0..Yields |-> Yields - 2 - jj]

C9_Shape(tag) ==
    /\ pc \in {"sampling", "yielded"} =>
          /\ d_chunks = ExpectedChunks(j, tag)
          /\ sprites[nb] = d_chunks
    /\ pc \in {"batch", "sampling", "yielded", "returned", "raised"} =>
          \A b \in DOMAIN sprites :
              /\ b < nb => sprites[b] = ExpectedChunks(Yields, tag)
              /\ b > nb => sprites[b] = <<>>

C10_InterruptReturnsFrames ==
    interrupted =>
        /\ pc = "returned"
        /\ exc = "none"
        /\ ~retval.isNone
        /\ retval.frames = [b \in DOMAIN sprites |-> sprites[b]]

\* C11: MakeCutouts.forward, for every cutn >= 0, takes exactly cutn // 4 of
\* its cutouts from the full uncropped padded image, and these are the ones
\* with the highest indices; all the other cutouts are random square crops.
C11_FinalQuarterFull ==
    (ccall.state = "done" /\ ccall.fn = "MakeCutouts" /\ ccall.out.exc = "none") =>
        /\ Cardinality({m \in 1..Len(ccall.out.views) :
                            ccall.out.views[m].kind = "full"})
             = ccall.cutn \div 4
        /\ \A m \in 1..Len(ccall.out.views) :
              ccall.out.views[m].kind
                = (IF m - 1 >= ccall.cutn - ccall.cutn \div 4 THEN "full" ELSE "crop")

\* The inner crops of a returned batch, in the order they were made.
InnerOf(views) == SelectSeq(views, LAMBDA v : v.kind = "inner")

\* C12: MakeCutoutsDango.forward, for InnerCrop = N >= 1 and a grayscale
\* fraction p in [0, 1], converts to grayscale a leading run of the N inner
\* crops of length floor(p * N); with p = 0 no inner crop is converted.
C12_LeadingGrayRun ==
    (/\ ccall.state = "done"
     /\ ccall.fn = "MakeCutoutsDango"
     /\ ccall.InnerCrop >= 1
     /\ ccall.out.exc = "none"
     /\ ~ccall.out.isNone) =>
        LET inner == InnerOf(ccall.out.views)
            run == (ccall.IC_Grey_P[1] * ccall.InnerCrop) \div ccall.IC_Grey_P[2]
        IN  /\ Len(inner) = ccall.InnerCrop
            /\ \A m \in 1..Len(inner) : inner[m].gray = (m <= run)
            /\ (ccall.IC_Grey_P[1] = 0 => \A m \in 1..Len(inner) : ~inner[m].gray)

C14_EncodesParsedText ==
    \A m \in 1..Len(model_stats) :
        /\ Len(model_stats[m].target_embeds) = Len(args.text_prompts)
        /\ \A i \in 1..Len(args.text_prompts) :
              /\ model_stats[m].target_embeds[i].encoded
                   = parse_prompt(args.text_prompts[i]).text
              /\ model_stats[m].weights[i]
                   = FDiv(Num(parse_prompt(args.text_prompts[i]).weight),
                          Num(Abs(SumInts(RunWeights))))

====
